---- MODULE Spec2Model ----
(***************************************************************************)
(* A model of rust-classfy (src/src/main.rs): the financial-year           *)
(* classifier of dated file names.                                         *)
(*                                                                         *)
(* Strings are sequences of characters; a character is a one-character     *)
(* string.  Rust's str::len and the range index s[a..b] count UTF-8 bytes, *)
(* so every character carries its encoded width and slicing is done on     *)
(* byte offsets: a range that starts or ends inside a character panics,    *)
(* as it does in Rust.                                                     *)
(*                                                                         *)
(* Two specifications share the module:                                    *)
(*   Spec       get_fy on one file stem, step by step (extraction, length  *)
(*              dispatch, the three parsers);                              *)
(*   SpecBatch  classify_files_in / place on a directory.                  *)
(***************************************************************************)
EXTENDS Integers, Sequences, FiniteSets

VARIABLES
    stem,       \* the file stem handed to get_fy (name_string, line 76)
    pc,         \* position inside get_fy
    candidate,  \* candidate_name (line 88)
    calls,      \* the parser functions entered so far, in order
    result,     \* what get_fy returned (or the panic that ended it)
    files,      \* regular files that are immediate entries of the directory
    dirs,       \* sub-directories of the directory
    contents,   \* contents[d]: the file names inside sub-directory d
    iter,       \* entries the read_dir iterator has still to yield
    bpc,        \* position of classify_files_in
    runs,       \* number of classify_files_in calls started
    initial,    \* the directory as it was before the first call
    afterFirst, \* the directory as the first completed call left it
    visited,    \* the entries the loop body of the current call has handled
    last        \* the entry handled last, the directory before it, the outcome

pureVars  == <<stem, pc, candidate, calls, result>>
batchVars == <<files, dirs, contents, iter, bpc, runs, initial, afterFirst,
               visited, last>>
vars == <<stem, pc, candidate, calls, result, files, dirs, contents, iter,
          bpc, runs, initial, afterFirst, visited, last>>

----------------------------------------------------------------------------
(* Bounds of the model. *)

\* Largest number of underscores appended after the date token of a stem.
MaxTrail == 2
\* Largest number of leading "t_" segments put before the date token.
MaxLead == 2
\* Largest number of regular files in the directory before the first call.
MaxFiles == 3
\* Number of classify_files_in calls made on the directory.
MaxRuns == 2

\* u16::MAX and u8::MAX: the ranges of the parse::<u16> / parse::<u8> calls.
U16Max == 65535
U8Max == 255

----------------------------------------------------------------------------
(* Characters, UTF-8 widths and byte slicing. *)

\* A character that UTF-8 encodes in two bytes.
EAcute == "e'"

Width(c) == IF c = EAcute THEN 2 ELSE 1

RECURSIVE ByteLen(_)
ByteLen(s) == IF s = <<>> THEN 0 ELSE Width(Head(s)) + ByteLen(Tail(s))

\* Byte offset just after the first k characters of s.
Offset(s, k) == ByteLen(SubSeq(s, 1, k))

IsCharBoundary(s, i) == \E k \in 0..Len(s) : Offset(s, k) = i

CharsBefore(s, i) == CHOOSE k \in 0..Len(s) : Offset(s, k) = i

\* s[a..b] succeeds only when both ends are character boundaries within s.
CanSlice(s, a, b) == a <= b /\ IsCharBoundary(s, a) /\ IsCharBoundary(s, b)

ByteSlice(s, a, b) == SubSeq(s, CharsBefore(s, a) + 1, CharsBefore(s, b))

----------------------------------------------------------------------------
(* Result<u16, String>, and the panic that unwinds out of get_fy. *)

Ok(n) == [kind |-> "Ok", fy |-> n, msg |-> "", arg |-> <<>>, cause |-> ""]

\* msg is the fixed text of the message, arg the string formatted into it,
\* cause the ParseIntError's text.
Err(m, a, c) == [kind |-> "Err", fy |-> 0, msg |-> m, arg |-> a, cause |-> c]

Panic(m) == [kind |-> "Panic", fy |-> 0, msg |-> m, arg |-> <<>>, cause |-> ""]

None == [kind |-> "None", fy |-> 0, msg |-> "", arg |-> <<>>, cause |-> ""]

----------------------------------------------------------------------------
(* str::parse::<u16>() and str::parse::<u8>(). *)

DigitChars == {"0", "1", "2", "3", "4", "5", "6", "7", "8", "9"}

DigitValue(c) ==
    CASE c = "0" -> 0 [] c = "1" -> 1 [] c = "2" -> 2 [] c = "3" -> 3
      [] c = "4" -> 4 [] c = "5" -> 5 [] c = "6" -> 6 [] c = "7" -> 7
      [] c = "8" -> 8 [] c = "9" -> 9

RECURSIVE DecimalValue(_)
DecimalValue(s) ==
    IF s = <<>> THEN 0
    ELSE 10 * DecimalValue(SubSeq(s, 1, Len(s) - 1)) + DigitValue(s[Len(s)])

\* from_str_radix for an unsigned type: an optional leading '+', then decimal
\* digits only; a lone sign, a '-' or any other character is InvalidDigit.
ParseUnsigned(s, max) ==
    IF s = <<>> THEN [ok |-> FALSE, value |-> 0, err |-> "Empty"]
    ELSE IF Len(s) = 1 /\ s[1] \in {"+", "-"}
         THEN [ok |-> FALSE, value |-> 0, err |-> "InvalidDigit"]
    ELSE LET digits == IF s[1] = "+" THEN Tail(s) ELSE s
         IN  IF \E i \in 1..Len(digits) : digits[i] \notin DigitChars
             THEN [ok |-> FALSE, value |-> 0, err |-> "InvalidDigit"]
             ELSE IF DecimalValue(digits) > max
                  THEN [ok |-> FALSE, value |-> 0, err |-> "PosOverflow"]
                  ELSE [ok |-> TRUE, value |-> DecimalValue(digits), err |-> ""]

ParseU16(s) == ParseUnsigned(s, U16Max)

ParseU8(s) == ParseUnsigned(s, U8Max)

----------------------------------------------------------------------------
(* The parsers. *)

\* The arms of the match with offset 0 and with offset 1.
FirstHalf == {<<"J","A","N">>, <<"F","E","B">>, <<"M","A","R">>,
              <<"A","P","R">>, <<"M","A","Y">>, <<"J","U","N">>}

SecondHalf == {<<"J","U","L">>, <<"A","U","G">>, <<"S","E","P">>,
               <<"O","C","T">>, <<"N","O","V">>, <<"D","E","C">>}

\* get_month_offset with the "JUN" arm moved to the second half of the year.
get_month_offset_jun_late(month) ==
    CASE month \in FirstHalf \ {<<"J","U","N">>}  -> Ok(0)
      [] month \in SecondHalf \cup {<<"J","U","N">>} -> Ok(1)
      [] OTHER -> Err("Month not recognised", month, "")

get_month_offset(month) ==
    CASE month \in FirstHalf  -> Ok(0)
      [] month \in SecondHalf -> Ok(1)
      [] OTHER                -> Err("Month not recognised", month, "")

\* year + offset as u16: a debug build panics on overflow, a release build
\* wraps.  Four bytes parse to at most 9999, so neither happens here.
process_month_and_year(date) ==
    IF ~CanSlice(date, 0, 3)
    THEN Panic("byte index is not a char boundary")
    ELSE LET offset == get_month_offset(ByteSlice(date, 0, 3))
         IN  IF offset.kind = "Err" THEN offset
             ELSE IF ~CanSlice(date, 3, 7)
                  THEN Panic("byte index is not a char boundary")
                  ELSE LET date_str == ByteSlice(date, 3, 7)
                           year == ParseU16(date_str)
                       IN  IF year.ok
                           THEN Ok((year.value + offset.fy) % (U16Max + 1))
                           ELSE Err("Could not parse year", date_str, year.err)

get_fy_fy_year_only(date) ==
    IF ~CanSlice(date, 4, 6)
    THEN Panic("byte index is not a char boundary")
    ELSE IF ByteSlice(date, 4, 6) # <<"F", "Y">>
         THEN Err("Date is not an FY", date, "")
         ELSE IF ~CanSlice(date, 0, 4)
              THEN Panic("byte index is not a char boundary")
              ELSE LET year == ParseU16(ByteSlice(date, 0, 4))
                   IN  IF year.ok
                       THEN Ok(year.value)
                       ELSE Err("Could not parse year", date, year.err)

\* TRUE when the match on date[0..2].parse::<u8>() takes its Ok arm.
DayParses(date) == CanSlice(date, 0, 2) /\ ParseU8(ByteSlice(date, 0, 2)).ok

\* get_fy_full_date rejecting a day that is not in 1..31.
get_fy_full_date_calendar(date) ==
    IF ~CanSlice(date, 0, 2)
    THEN Panic("byte index is not a char boundary")
    ELSE LET day_str == ByteSlice(date, 0, 2)
             day == ParseU8(day_str)
         IN  IF day.ok /\ day.value \in 1..31
             THEN IF ~CanSlice(date, 2, 9)
                  THEN Panic("byte index is not a char boundary")
                  ELSE process_month_and_year(ByteSlice(date, 2, 9))
             ELSE Err("Could not parse day of month", day_str, day.err)

\* get_fy_full_date looking at the month and the year before the day.
get_fy_full_date_month_first(date) ==
    IF ~CanSlice(date, 2, 9)
    THEN Panic("byte index is not a char boundary")
    ELSE LET rest == process_month_and_year(ByteSlice(date, 2, 9))
         IN  IF rest.kind # "Ok" THEN rest
             ELSE IF ~CanSlice(date, 0, 2)
                  THEN Panic("byte index is not a char boundary")
                  ELSE LET day_str == ByteSlice(date, 0, 2)
                           day == ParseU8(day_str)
                       IN  IF day.ok THEN rest
                           ELSE Err("Could not parse day of month",
                                    day_str, day.err)

get_fy_full_date(date) ==
    IF ~CanSlice(date, 0, 2)
    THEN Panic("byte index is not a char boundary")
    ELSE LET day_str == ByteSlice(date, 0, 2)
             day == ParseU8(day_str)
         IN  IF day.ok
             THEN IF ~CanSlice(date, 2, 9)
                  THEN Panic("byte index is not a char boundary")
                  ELSE process_month_and_year(ByteSlice(date, 2, 9))
             ELSE Err("Could not parse day of month", day_str, day.err)

----------------------------------------------------------------------------
(* get_fy: the token and the dispatch on its length. *)

RECURSIVE Split(_)
\* str::split('_'): the segments between underscores, empty ones included.
Split(s) ==
    IF \A i \in 1..Len(s) : s[i] # "_"
    THEN <<s>>
    ELSE LET i == CHOOSE j \in 1..Len(s) :
                      s[j] = "_" /\ \A k \in 1..(j - 1) : s[k] # "_"
         IN  <<SubSeq(s, 1, i - 1)>> \o Split(SubSeq(s, i + 1, Len(s)))

\* split_terminator written as split: the trailing empty segment is kept.
split_keep_trailing(s) == Split(s)

\* str::split_terminator('_'): as split, but the trailing segment is skipped
\* when it is empty.
split_terminator(s) ==
    LET segs == Split(s)
    IN  IF segs[Len(segs)] = <<>> THEN SubSeq(segs, 1, Len(segs) - 1) ELSE segs

\* Iterator::last(): None on an empty iterator.
last_candidate(s) ==
    LET segs == split_terminator(s)
    IN  IF segs = <<>> THEN [some |-> FALSE, value |-> <<>>]
        ELSE [some |-> TRUE, value |-> segs[Len(segs)]]

\* The dispatch with the full-date arm on 8 bytes.
dispatch_full_date_at_8(len) ==
    CASE len = 6 -> "get_fy_fy_year_only"
      [] len = 7 -> "process_month_and_year"
      [] len = 8 -> "get_fy_full_date"
      [] OTHER   -> "none"

\* The match on candidate_name.len(): the parser a byte length selects.
dispatch(len) ==
    CASE len = 6 -> "get_fy_fy_year_only"
      [] len = 7 -> "process_month_and_year"
      [] len = 9 -> "get_fy_full_date"
      [] OTHER   -> "none"

run_parser(parser, date) ==
    CASE parser = "get_fy_fy_year_only"    -> get_fy_fy_year_only(date)
      [] parser = "process_month_and_year" -> process_month_and_year(date)
      [] parser = "get_fy_full_date"       -> get_fy_full_date(date)
      [] OTHER -> Err("File name does not end with date", <<>>, "")

\* Lines 88-95: the dispatch and the parser, on a token.
resolve(token) == run_parser(dispatch(ByteLen(token)), token)

\* Lines 76-95 of get_fy, on the stem.
get_fy_of_stem(name_string) ==
    LET c == last_candidate(name_string)
    IN  IF ~c.some THEN Err("Incorrect file name format", <<>>, "")
        ELSE resolve(c.value)

----------------------------------------------------------------------------
(* The stems get_fy is run on. *)

RECURSIVE Repeat(_, _)
Repeat(s, n) == IF n = 0 THEN <<>> ELSE s \o Repeat(s, n - 1)

\* Year fields: every four-digit string over two digits, some ordinary
\* years, and fields that are signed, not numeric, not ASCII or not 4 bytes.
YearFields ==
    {<<a, b, c, d>> : a \in {"0", "9"}, b \in {"0", "9"},
                      c \in {"0", "9"}, d \in {"0", "9"}}
    \cup {<<"2","0","2","0">>, <<"2","0","2","1">>, <<"0","1","9","9">>,
          <<"+","2","0","2">>, <<"-","2","0","2">>, <<"a","b","c","d">>,
          <<"2","0"," ","0">>, <<"2",EAcute,"0">>, <<EAcute,"2","0">>,
          <<"2","0",EAcute>>, <<"2","0","2">>, <<"2","0",EAcute,"0">>,
          <<"2","+","0","2">>}

\* Month fields: the twelve codes, and codes that are lowercase, unknown,
\* not ASCII or not 3 bytes.
MonthFields ==
    FirstHalf \cup SecondHalf
    \cup {<<"j","a","n">>, <<"J","u","l">>, <<"N","A","N">>, <<"J",EAcute>>,
          <<EAcute,"J">>, <<"J","A",EAcute>>, <<"J","A">>}

\* Day fields: in and out of the calendar, signed, not numeric, not ASCII,
\* not 2 bytes.
DayFields ==
    {<<"2","1">>, <<"0","0">>, <<"3","2">>, <<"9","9">>, <<"+","5">>,
     <<"-","1">>, <<"A","1">>, <<EAcute>>, <<"1",EAcute>>, <<"1">>}

\* The two characters that follow the year of a "2022FY" token.
SuffixFields ==
    {<<"F","Y">>, <<"f","y">>, <<"F","y">>, <<EAcute>>, <<"F",EAcute>>}

Tokens ==
    {y \o s : y \in YearFields, s \in SuffixFields}
    \cup {m \o y : m \in MonthFields, y \in YearFields}
    \cup {d \o m \o y : d \in DayFields, m \in MonthFields, y \in YearFields}
    \cup {<<>>, <<"t","e","x","t">>, <<"a","b","c",EAcute,"1">>}

Stems ==
    {Repeat(<<"t", "_">>, l) \o t \o Repeat(<<"_">>, u) :
        l \in 0..MaxLead, t \in Tokens, u \in 0..MaxTrail}

----------------------------------------------------------------------------
(* Spec: get_fy on one stem. *)

\* A directory on which nothing runs: the state of the batch under Spec.
Idle ==
    /\ files = {} /\ dirs = {} /\ contents = <<>> /\ iter = {}
    /\ bpc = "idle" /\ runs = 0 /\ initial = <<>> /\ afterFirst = <<>>
    /\ visited = {} /\ last = <<>>

Init ==
    /\ stem \in Stems
    /\ pc = "start"
    /\ candidate = <<>>
    /\ calls = <<>>
    /\ result = None
    /\ Idle

\* Lines 83-88: the candidate token, or the error of an empty iterator.
Extract ==
    /\ pc = "start"
    /\ LET c == last_candidate(stem)
       IN  IF c.some
           THEN /\ candidate' = c.value
                /\ pc' = "dispatch"
                /\ result' = result
           ELSE /\ candidate' = candidate
                /\ pc' = "returned"
                /\ result' = Err("Incorrect file name format", <<>>, "")
    /\ UNCHANGED <<stem, calls>>
    /\ UNCHANGED batchVars

\* Lines 90-95: the match on the token's length.
Dispatch ==
    /\ pc = "dispatch"
    /\ LET parser == dispatch(ByteLen(candidate))
       IN  IF parser = "none"
           THEN /\ pc' = "returned"
                /\ result' = run_parser(parser, candidate)
           ELSE /\ pc' = parser
                /\ result' = result
    /\ UNCHANGED <<stem, candidate, calls>>
    /\ UNCHANGED batchVars

Returned(r) == IF r.kind = "Panic" THEN "panicked" ELSE "returned"

GetFyFyYearOnly ==
    /\ pc = "get_fy_fy_year_only"
    /\ result' = get_fy_fy_year_only(candidate)
    /\ pc' = Returned(result')
    /\ calls' = Append(calls, "get_fy_fy_year_only")
    /\ UNCHANGED <<stem, candidate>>
    /\ UNCHANGED batchVars

ProcessMonthAndYear ==
    /\ pc = "process_month_and_year"
    /\ result' = process_month_and_year(candidate)
    /\ pc' = Returned(result')
    /\ calls' = Append(calls, "process_month_and_year")
    /\ UNCHANGED <<stem, candidate>>
    /\ UNCHANGED batchVars

\* get_fy_full_date, with its call of process_month_and_year on date[2..9].
GetFyFullDate ==
    /\ pc = "get_fy_full_date"
    /\ result' = get_fy_full_date(candidate)
    /\ pc' = Returned(result')
    /\ calls' = IF DayParses(candidate)
                THEN calls \o <<"get_fy_full_date", "process_month_and_year">>
                ELSE Append(calls, "get_fy_full_date")
    /\ UNCHANGED <<stem, candidate>>
    /\ UNCHANGED batchVars

Next ==
    \/ Extract
    \/ Dispatch
    \/ GetFyFyYearOnly
    \/ ProcessMonthAndYear
    \/ GetFyFullDate

Spec == Init /\ [][Next]_vars

----------------------------------------------------------------------------
(* The directory, and place. *)

Dot == "."

\* Path::file_stem: the name up to its last dot; the whole name when it has
\* no dot or only a leading one.
file_stem(name) ==
    LET dots == {i \in 1..Len(name) : name[i] = Dot}
    IN  IF dots = {} THEN name
        ELSE LET i == CHOOSE j \in dots : \A k \in dots : k <= j
             IN  IF i = 1 THEN name ELSE SubSeq(name, 1, i - 1)

\* get_fy on a path that is a regular file with a UTF-8 name.
get_fy(name) == get_fy_of_stem(file_stem(name))

DigitChar(d) ==
    CASE d = 0 -> "0" [] d = 1 -> "1" [] d = 2 -> "2" [] d = 3 -> "3"
      [] d = 4 -> "4" [] d = 5 -> "5" [] d = 6 -> "6" [] d = 7 -> "7"
      [] d = 8 -> "8" [] d = 9 -> "9"

RECURSIVE ToDecimal(_)
\* format!("{}", fy): the decimal digits of fy, without leading zeros.
ToDecimal(n) ==
    IF n < 10 THEN <<DigitChar(n)>>
    ELSE Append(ToDecimal(n \div 10), DigitChar(n % 10))

\* format!("{}FY", fy), the name of the destination directory.
dest_dir_name(fy) == ToDecimal(fy) \o <<"F", "Y">>

\* The directory: its regular files, its sub-directories and their files.
Directory == [files |-> files, dirs |-> dirs, contents |-> contents]

\* place without the assertion on dest.exists(): rename replaces the file.
place_overwrite(fs, name, fy) ==
    LET dest_dir == dest_dir_name(fy)
        absent == dest_dir \notin fs.files \cup fs.dirs
        made == IF absent
                THEN [files |-> fs.files,
                      dirs |-> fs.dirs \cup {dest_dir},
                      contents |-> [d \in fs.dirs \cup {dest_dir} |->
                                      IF d \in fs.dirs THEN fs.contents[d]
                                      ELSE {}]]
                ELSE fs
        created == IF absent THEN {dest_dir} ELSE {}
    IN  IF dest_dir \notin made.dirs
        THEN [fs |-> made, panic |-> "is not a directory", created |-> created]
        ELSE [fs |-> [files |-> made.files \ {name},
                      dirs |-> made.dirs,
                      contents |-> [made.contents EXCEPT
                                      ![dest_dir] = @ \cup {name}]],
              panic |-> "",
              created |-> created]

\* place with fs::copy for fs::rename: the source file stays.
place_copy(fs, name, fy) ==
    LET dest_dir == dest_dir_name(fy)
        absent == dest_dir \notin fs.files \cup fs.dirs
        made == IF absent
                THEN [files |-> fs.files,
                      dirs |-> fs.dirs \cup {dest_dir},
                      contents |-> [d \in fs.dirs \cup {dest_dir} |->
                                      IF d \in fs.dirs THEN fs.contents[d]
                                      ELSE {}]]
                ELSE fs
        created == IF absent THEN {dest_dir} ELSE {}
    IN  IF dest_dir \notin made.dirs
        THEN [fs |-> made, panic |-> "is not a directory", created |-> created]
        ELSE IF name \in made.contents[dest_dir]
        THEN [fs |-> made, panic |-> "already exists", created |-> created]
        ELSE [fs |-> [files |-> made.files,
                      dirs |-> made.dirs,
                      contents |-> [made.contents EXCEPT
                                      ![dest_dir] = @ \cup {name}]],
              panic |-> "",
              created |-> created]

\* place(path, fy) on directory fs: the directory it leaves, the panic that
\* ended it (if one did) and the sub-directory it created (if it did).
place(fs, name, fy) ==
    LET dest_dir == dest_dir_name(fy)
        absent == dest_dir \notin fs.files \cup fs.dirs
        made == IF absent
                THEN [files |-> fs.files,
                      dirs |-> fs.dirs \cup {dest_dir},
                      contents |-> [d \in fs.dirs \cup {dest_dir} |->
                                      IF d \in fs.dirs THEN fs.contents[d]
                                      ELSE {}]]
                ELSE fs
        created == IF absent THEN {dest_dir} ELSE {}
    IN  IF dest_dir \notin made.dirs
        THEN [fs |-> made, panic |-> "is not a directory", created |-> created]
        ELSE IF name \in made.contents[dest_dir]
        THEN [fs |-> made, panic |-> "already exists", created |-> created]
        ELSE [fs |-> [files |-> made.files \ {name},
                      dirs |-> made.dirs,
                      contents |-> [made.contents EXCEPT
                                      ![dest_dir] = @ \cup {name}]],
              panic |-> "",
              created |-> created]

----------------------------------------------------------------------------
(* SpecBatch: classify_files_in on a directory. *)

Name(s, ext) == s \o ext

NoExt == <<>>
ExtT == <<Dot, "t">>

\* Regular files the directory may hold before the first call.
FileNames ==
    {Name(<<"a","_","J","U","L","2","0","2","0">>, ExtT),
     Name(<<"b","_","2","0","2","1","F","Y">>, ExtT),
     Name(<<"2","0","2","1","F","Y">>, NoExt),
     Name(<<"t","e","x","t">>, ExtT),
     Name(<<"c","_","1","0","N","A","N","2","0","2","0">>, NoExt),
     Name(<<"a","b","c",EAcute,"1">>, ExtT),
     Name(<<"d","_","0","1","9","9","F","Y">>, NoExt),
     Name(<<"e","_","0","1","J","A","N","2","0","2","0","_">>, ExtT)}

\* Sub-directories the directory may hold before the first call, and the
\* files that may be in them.
DirNames == {dest_dir_name(2021), dest_dir_name(199)}

InsideNames ==
    {Name(<<"a","_","J","U","L","2","0","2","0">>, ExtT),
     Name(<<"z">>, ExtT)}

InitBatch ==
    /\ files \in {F \in SUBSET FileNames : Cardinality(F) <= MaxFiles}
    /\ dirs \in {D \in SUBSET DirNames : D \cap files = {}}
    /\ contents \in [dirs -> SUBSET InsideNames]
    /\ iter = {}
    /\ bpc = "idle"
    /\ runs = 0
    /\ initial = <<>>
    /\ afterFirst = <<>>
    /\ visited = {}
    /\ last = <<>>
    /\ stem = <<>> /\ pc = "idle" /\ candidate = <<>> /\ calls = <<>>
    /\ result = None

\* Lines 17-25: the directory exists and is one; read_dir opens it.
ClassifyStart ==
    /\ bpc \in {"idle", "done"}
    /\ runs < MaxRuns
    /\ bpc' = "loop"
    /\ runs' = runs + 1
    /\ iter' = files \cup dirs
    /\ visited' = {}
    /\ initial' = IF runs = 0 THEN Directory ELSE initial
    /\ UNCHANGED <<files, dirs, contents, afterFirst, last>>
    /\ UNCHANGED pureVars

\* get_fy on each name the directory may hold, computed once.
FyOf == [n \in FileNames \cup InsideNames |-> get_fy(n)]

\* What the loop body does with entry e of directory fs (lines 26-38).
body(fs, e) ==
    IF e \notin fs.files
    THEN [fs |-> fs, outcome |-> "skipped", created |-> {}]
    ELSE LET fy == FyOf[e]
         IN  CASE fy.kind = "Panic" ->
                    [fs |-> fs, outcome |-> "panic: get_fy", created |-> {}]
               [] fy.kind = "Err" ->
                    [fs |-> fs, outcome |-> "left", created |-> {}]
               [] fy.kind = "Ok" ->
                    LET p == place(fs, e, fy.fy)
                    IN  [fs |-> p.fs,
                         outcome |-> IF p.panic = "" THEN "placed"
                                     ELSE "panic: " \o p.panic,
                         created |-> p.created]

Panicked(outcome) ==
    outcome \in {"panic: get_fy", "panic: is not a directory",
                 "panic: already exists"}

\* One turn of the for loop: the iterator yields an entry, in any order,
\* and the body runs on it.  A sub-directory that place creates may or may
\* not be yielded by the iterator that is already open.
LoopBody(e) ==
    /\ bpc = "loop"
    /\ e \in iter
    /\ LET b == body(Directory, e)
       IN  /\ files' = b.fs.files
           /\ dirs' = b.fs.dirs
           /\ contents' = b.fs.contents
           /\ last' = [entry |-> e, before |-> Directory, outcome |-> b.outcome,
                       run |-> runs]
           /\ bpc' = IF Panicked(b.outcome) THEN "panicked" ELSE "loop"
           /\ iter' \in {iter \ {e}, (iter \ {e}) \cup b.created}
    /\ visited' = visited \cup {e}
    /\ UNCHANGED <<runs, initial, afterFirst>>
    /\ UNCHANGED pureVars

\* The iterator is exhausted: classify_files_in returns.
ClassifyEnd ==
    /\ bpc = "loop"
    /\ iter = {}
    /\ bpc' = "done"
    /\ afterFirst' = IF runs = 1 THEN Directory ELSE afterFirst
    /\ UNCHANGED <<files, dirs, contents, iter, runs, initial, visited, last>>
    /\ UNCHANGED pureVars

NextBatch ==
    \/ ClassifyStart
    \/ \E e \in iter : LoopBody(e)
    \/ ClassifyEnd

SpecBatch == InitBatch /\ [][NextBatch]_vars

----------------------------------------------------------------------------
(* Vocabulary of the properties. *)

\* get_fy is over: it returned a Result, or a panic unwound out of it.
Over == pc \in {"returned", "panicked"}

AllDigits(s) == \A i \in 1..Len(s) : s[i] \in DigitChars

\* An unsigned decimal numeral: digits, with an optional leading '+'.
UnsignedNumeral(s) ==
    /\ s # <<>>
    /\ IF s[1] = "+" THEN Len(s) > 1 /\ AllDigits(Tail(s)) ELSE AllDigits(s)

NumeralValue(s) == DecimalValue(IF s[1] = "+" THEN Tail(s) ELSE s)

\* The characters m..n of s, as far as s goes.
Chars(s, m, n) ==
    SubSeq(s, m, IF n < Len(s) THEN n ELSE Len(s))

\* The error kinds of the specification, as the messages of the code.
IsNoToken(r) == r.kind = "Err" /\ r.msg = "Incorrect file name format"

IsUnrecognizedFormat(r) ==
    r.kind = "Err" /\ r.msg = "File name does not end with date"

IsInvalidFormat(r) ==
    r.kind = "Err" /\ r.msg \in {"Date is not an FY", "Could not parse year"}

IsInvalidYear(r) == r.kind = "Err" /\ r.msg = "Could not parse year"

IsInvalidDay(r) == r.kind = "Err" /\ r.msg = "Could not parse day of month"

IsUnknownMonth(r) == r.kind = "Err" /\ r.msg = "Month not recognised"

----------------------------------------------------------------------------
(* C1 *)

\* C1: on a 7-byte token whose first three bytes are a month field m and
\* whose last four are a year field y, get_fy returns y for m in JAN..JUN
\* and y + 1 for m in JUL..DEC when y is four decimal digits; it fails with
\* "Month ... not recognised" (UnknownMonth) when m is not one of the twelve
\* uppercase codes, and with "Could not parse year" (InvalidYear) when m is
\* one of them and y is not an unsigned numeral.
C1_MonthYear ==
    (Over /\ calls = <<"process_month_and_year">> /\ CanSlice(candidate, 0, 3))
    => LET m == ByteSlice(candidate, 0, 3)
           y == ByteSlice(candidate, 3, 7)
       IN  /\ (m \in FirstHalf /\ Len(y) = 4 /\ AllDigits(y))
                  => result = Ok(DecimalValue(y))
           /\ (m \in SecondHalf /\ Len(y) = 4 /\ AllDigits(y))
                  => result = Ok(DecimalValue(y) + 1)
           /\ (m \notin FirstHalf \cup SecondHalf) => IsUnknownMonth(result)
           /\ (m \in FirstHalf \cup SecondHalf /\ ~UnsignedNumeral(y))
                  => IsInvalidYear(result)

\* A JUL token has been resolved to the following year.
C1_Witness ==
    /\ Over
    /\ calls = <<"process_month_and_year">>
    /\ candidate = <<"J","U","L","2","0","2","0">>
    /\ result = Ok(2021)

----------------------------------------------------------------------------
(* C2 *)

\* C2: on a 9-byte token whose first two bytes parse as a day (two digits,
\* or '+' and a digit), get_fy ends exactly as resolving the 7-byte suffix
\* ends, and as it ends on the same suffix behind any other parseable day.
C2_DayIrrelevant ==
    (/\ Over
     /\ calls # <<>>
     /\ calls[1] = "get_fy_full_date"
     /\ UnsignedNumeral(Chars(candidate, 1, 2)))
    => LET suffix == SubSeq(candidate, 3, Len(candidate))
       IN  /\ result = resolve(suffix)
           /\ \A d \in DayFields :
                  (Len(d) = 2 /\ UnsignedNumeral(d))
                      => resolve(d \o suffix) = result

\* A full date with day 99 has been resolved through its suffix.
C2_Witness ==
    /\ Over
    /\ calls = <<"get_fy_full_date", "process_month_and_year">>
    /\ candidate = <<"9","9","D","E","C","2","0","2","0">>
    /\ result = Ok(2021)

----------------------------------------------------------------------------
(* C3 *)

\* C3: on every 6-byte token get_fy returns the value of chars[0:4] when
\* they are an unsigned numeral and chars[4:6] are "FY", and fails with
\* InvalidFormat otherwise.
C3_YearOnly ==
    (Over /\ calls = <<"get_fy_fy_year_only">>)
    => LET y == Chars(candidate, 1, 4)
           s == Chars(candidate, 5, 6)
       IN  IF UnsignedNumeral(y) /\ Len(y) = 4 /\ s = <<"F", "Y">>
           THEN result = Ok(NumeralValue(y))
           ELSE IsInvalidFormat(result)

----------------------------------------------------------------------------
(* C4 *)

\* The parser calls a token of length len must have led to.
CallsFor(len, cs) ==
    CASE len = 6 -> cs = <<"get_fy_fy_year_only">>
      [] len = 7 -> cs = <<"process_month_and_year">>
      [] len = 9 -> cs \in {<<"get_fy_full_date">>,
                           <<"get_fy_full_date", "process_month_and_year">>}
      [] OTHER   -> cs = <<>>

\* C4 as stated, lengths counted in characters: until the dispatch no parser
\* has run; a token of other than 6, 7 or 9 characters ends in
\* UnrecognizedFormat with no parser run, and one of 6, 7 or 9 characters
\* runs the parser of its length.
C4_CharLength ==
    /\ pc \in {"start", "dispatch"} => (calls = <<>> /\ result = None)
    /\ (Over /\ ~IsNoToken(result))
       => /\ CallsFor(Len(candidate), calls)
          /\ Len(candidate) \notin {6, 7, 9} => IsUnrecognizedFormat(result)

\* C4, amended: the same with lengths counted in UTF-8 bytes.
C4_ByteLength ==
    /\ pc \in {"start", "dispatch"} => (calls = <<>> /\ result = None)
    /\ (Over /\ ~IsNoToken(result))
       => /\ CallsFor(ByteLen(candidate), calls)
          /\ ByteLen(candidate) \notin {6, 7, 9}
                 => IsUnrecognizedFormat(result)

\* A token of 5 characters in 6 bytes has gone to the parser of "2022FY".
C4_Witness ==
    /\ Over
    /\ Len(candidate) = 5
    /\ ByteLen(candidate) = 6
    /\ calls = <<"get_fy_fy_year_only">>
    /\ IsInvalidFormat(result)

----------------------------------------------------------------------------
(* C5 *)

HasUnderscore(s) == \E i \in 1..Len(s) : s[i] = "_"

\* The characters of s after its last underscore (s itself without one).
AfterLastUnderscore(s) ==
    IF ~HasUnderscore(s) THEN s
    ELSE LET i == CHOOSE j \in 1..Len(s) :
                      s[j] = "_" /\ \A k \in (j + 1)..Len(s) : s[k] # "_"
         IN  SubSeq(s, i + 1, Len(s))

\* s without its last character when that is an underscore.
StripOneUnderscore(s) ==
    IF s # <<>> /\ s[Len(s)] = "_" THEN SubSeq(s, 1, Len(s) - 1) ELSE s

RECURSIVE StripUnderscores(_)
\* s without any of its trailing underscores.
StripUnderscores(s) ==
    IF s # <<>> /\ s[Len(s)] = "_"
    THEN StripUnderscores(SubSeq(s, 1, Len(s) - 1))
    ELSE s

\* C5 as stated: for a non-empty stem the token is the last non-empty
\* segment between underscores, however many underscores follow it, and
\* the extraction does not fail.
C5_LastNonEmpty ==
    (pc # "start" /\ stem # <<>>)
    => /\ ~IsNoToken(result)
       /\ StripUnderscores(stem) # <<>>
              => candidate = AfterLastUnderscore(StripUnderscores(stem))

\* C5, amended: the token is what follows the last underscore of the stem
\* once a single trailing underscore, if there is one, has been dropped: it
\* is empty when the stem ends with two underscores or more, the whole stem
\* when the stem has no underscore, and the extraction does not fail.
C5_OneTerminator ==
    (pc # "start" /\ stem # <<>>)
    => /\ ~IsNoToken(result)
       /\ candidate = AfterLastUnderscore(StripOneUnderscore(stem))
       /\ ~HasUnderscore(stem) => candidate = stem

\* A stem with one trailing underscore has given the segment before it.
C5_Witness ==
    /\ pc = "dispatch"
    /\ stem = <<"t","_","J","A","N","2","0","2","0","_">>
    /\ candidate = <<"J","A","N","2","0","2","0">>

----------------------------------------------------------------------------
(* C6 *)

\* C6: get_fy never panics: on every stem it returns an FY or an error.
C6_NeverPanics == pc # "panicked" /\ result.kind # "Panic"

----------------------------------------------------------------------------
(* C10 *)

\* A two-character day field that is a positive integer.
PositiveDay(d) == Len(d) = 2 /\ UnsignedNumeral(d) /\ NumeralValue(d) > 0

----------------------------------------------------------------------------
(* Vocabulary of the batch properties. *)

DestOf(n) == dest_dir_name(FyOf[n].fy)

\* Placing file n in directory fs meets something at its destination: the
\* destination directory's name is taken by a regular file, or the directory
\* already holds a file of n's name.
Collides(fs, n) ==
    /\ FyOf[n].kind = "Ok"
    /\ \/ DestOf(n) \in fs.files
       \/ DestOf(n) \in fs.dirs /\ n \in fs.contents[DestOf(n)]

NoCollisions(fs) == \A n \in fs.files : ~Collides(fs, n)

\* Every file of fs with the place it is at (<<>> is the directory itself).
Located(fs) ==
    {<<<<>>, n>> : n \in fs.files}
    \cup UNION {{<<d, n>> : n \in fs.contents[d]} : d \in fs.dirs}

Resolved(fs) == {n \in fs.files : FyOf[n].kind = "Ok"}

----------------------------------------------------------------------------
(* C7 *)

\* C7: on a directory without destination collisions, once the call has
\* stopped every file whose stem resolves to y is in <y>FY under its own
\* name and no longer in the directory, every other file is where it was,
\* and no file was lost, duplicated or created: no file keeps the others
\* from being processed, in whatever order the entries come.
C7_Batch ==
    (runs = 1 /\ NoCollisions(initial) /\ bpc \in {"done", "panicked"})
    => /\ \A n \in initial.files :
              IF FyOf[n].kind = "Ok"
              THEN /\ n \notin files
                   /\ DestOf(n) \in dirs
                   /\ n \in contents[DestOf(n)]
              ELSE n \in files
       /\ Located(Directory) =
              (Located(initial) \ {<<<<>>, n>> : n \in Resolved(initial)})
              \cup {<<DestOf(n), n>> : n \in Resolved(initial)}

----------------------------------------------------------------------------
(* C8 *)

\* The entry handled last was a file whose placement met a collision.
CollisionAtLast ==
    /\ last # <<>>
    /\ last.entry \in last.before.files
    /\ Collides(last.before, last.entry)

\* C8 as stated: after a collision the file is where it was, nothing was
\* overwritten, and the call goes on with the other files: it does not
\* stop while a file of the directory is still to be yielded.
C8_BatchGoesOn ==
    CollisionAtLast
    => /\ last.entry \in files
       /\ Directory = last.before
       /\ bpc = "panicked" => iter \cap files = {}

\* C8, amended: after a collision the file is where it was and nothing was
\* overwritten or created, but the assertion of place has panicked: the call
\* has ended there, with the entries not yet yielded left unprocessed.
C8_BatchStops ==
    CollisionAtLast
    => /\ last.entry \in files
       /\ Directory = last.before
       /\ bpc = "panicked"
       /\ last.outcome \in {"panic: is not a directory",
                            "panic: already exists"}
       /\ visited \cap iter = {}

\* A file met its name in the destination while other files were waiting.
C8_Witness ==
    /\ CollisionAtLast
    /\ last.outcome = "panic: already exists"
    /\ bpc = "panicked"
    /\ iter \cap files # {}

----------------------------------------------------------------------------
(* C9 *)

\* C9: a call made after a first call has returned changes nothing: the
\* directory stays as the first call left it, the call handles immediate
\* entries only, moves none of them and does not panic.
C9_SecondRunIdle ==
    runs >= 2
    => /\ Directory = afterFirst
       /\ bpc # "panicked"
       /\ visited \subseteq afterFirst.files \cup afterFirst.dirs
       /\ (last # <<>> /\ last.run >= 2)
             => last.outcome \in {"skipped", "left"}

\* A second call has returned on a directory where the first one had moved
\* a file and left another in place.
C9_Witness ==
    /\ runs = 2
    /\ bpc = "done"
    /\ files # {}
    /\ \E d \in dirs : contents[d] \cap initial.files # {}
    /\ visited = files \cup dirs

====
